---------------------------- MODULE Spec2Model ----------------------------
(***************************************************************************)
(* TECS (Total Energy Control System) of src/lib/tecs/TECS.cpp.            *)
(*                                                                         *)
(* Numbers.  A C++ float is modelled as a fixed-point integer counting     *)
(* thousandths (SCALE): 0.5 is 500, 9.80665 m/s^2 is 9807.  Products and   *)
(* quotients are rescaled and truncated toward zero.  Three values outside *)
(* the working range stand for the IEEE values NaN, +inf and -inf, and     *)
(* every arithmetic operator and comparison treats them as IEEE-754 does   *)
(* (NaN propagates, every comparison with NaN is false, x/0 is +-inf or    *)
(* NaN).  Time stamps are integer microseconds as in the source; a time    *)
(* difference converted to seconds is again a fixed-point number.          *)
(***************************************************************************)
EXTENDS Integers, Sequences, FiniteSets, TLC

VARIABLES
    tecs,   \* the fields of the TECS object; tecs.loc holds the locals the last
            \* update_pitch_throttle call left (and the object as its initializer left it)
    now,    \* the monotonic clock hrt_absolute_time(), microseconds
    calls,  \* number of entry-point calls made so far
    obs     \* the last call: which entry point, its arguments, the object before it

vars == <<tecs, now, calls, obs>>

-----------------------------------------------------------------------------
(* Fixed-point floats *)

SCALE == 1000

NaN == 2000000001
PInf == 2000000000
NInf == -2000000000

isnan(x) == x = NaN
isinf(x) == x = PInf \/ x = NInf
PX4_ISFINITE(x) == ~isnan(x) /\ ~isinf(x)

Abs(x) == IF x < 0 THEN -x ELSE x


\* a*b/SCALE and a*SCALE/b of finite numbers, truncated toward zero; the product
\* is taken in two parts so that no intermediate value leaves 32 bits
mulmag(big, small) == (big \div SCALE) * small + ((big % SCALE) * small) \div SCALE

mulabs(x, y) == IF x >= y THEN mulmag(x, y) ELSE mulmag(y, x)

mulscale(a, b) ==
    IF (a >= 0) = (b >= 0) THEN mulabs(Abs(a), Abs(b)) ELSE -mulabs(Abs(a), Abs(b))

divmag(x, y) == (x \div y) * SCALE + ((x % y) * SCALE) \div y

divscale(a, b) ==
    IF (a >= 0) = (b > 0) THEN divmag(Abs(a), Abs(b)) ELSE -divmag(Abs(a), Abs(b))

fneg(a) == IF isnan(a) THEN NaN ELSE -a

fadd(a, b) ==
    IF isnan(a) \/ isnan(b) THEN NaN
    ELSE IF isinf(a) /\ isinf(b) THEN (IF a = b THEN a ELSE NaN)
    ELSE IF isinf(a) THEN a
    ELSE IF isinf(b) THEN b
    ELSE a + b

fsub(a, b) == fadd(a, fneg(b))

fmul(a, b) ==
    IF isnan(a) \/ isnan(b) THEN NaN
    ELSE IF isinf(a) \/ isinf(b)
         THEN (IF a = 0 \/ b = 0 THEN NaN
               ELSE IF (a > 0) = (b > 0) THEN PInf ELSE NInf)
    ELSE mulscale(a, b)

fdiv(a, b) ==
    IF isnan(a) \/ isnan(b) THEN NaN
    ELSE IF isinf(a) THEN (IF isinf(b) THEN NaN
                           ELSE IF (a > 0) = (b >= 0) THEN PInf ELSE NInf)
    ELSE IF isinf(b) THEN 0
    ELSE IF b = 0 THEN (IF a = 0 THEN NaN ELSE IF a > 0 THEN PInf ELSE NInf)
    ELSE divscale(a, b)

\* comparisons: false as soon as an operand is NaN
flt(a, b) == ~isnan(a) /\ ~isnan(b) /\ a < b
fgt(a, b) == ~isnan(a) /\ ~isnan(b) /\ a > b
fle(a, b) == ~isnan(a) /\ ~isnan(b) /\ a <= b
fge(a, b) == ~isnan(a) /\ ~isnan(b) /\ a >= b

\* math::constrain, math::max, math::min (lib/mathlib) and fmaxf, fabsf (libm)
constrain(val, lo, hi) == IF flt(val, lo) THEN lo ELSE IF fgt(val, hi) THEN hi ELSE val
max(a, b) == IF fgt(a, b) THEN a ELSE b
min(a, b) == IF flt(a, b) THEN a ELSE b
fmaxf(a, b) == IF isnan(a) THEN b ELSE IF isnan(b) THEN a ELSE IF a > b THEN a ELSE b
fabsf(a) == IF isnan(a) THEN NaN ELSE Abs(a)

\* (t * 1e-6f): microseconds to seconds
usec_to_sec(t) == t \div 1000

-----------------------------------------------------------------------------
(* Constants of the program *)

DT_MIN == 1
DT_MAX == 1000
DT_DEFAULT == 20
FLT_EPSILON == 1
CONSTANTS_ONE_G == 9807
kTASErrorPercentage == 100

\* the tuning the host has set through the setters before flight
Params ==
    [ equivalent_airspeed_min |-> 10000, equivalent_airspeed_max |-> 30000,
      equivalent_airspeed_trim |-> 20000,
      max_climb_rate |-> 5000, max_sink_rate |-> 5000, min_sink_rate |-> 2000,
      vert_accel_limit |-> 7000, jerk_max |-> 1000000,
      pitch_damping_gain |-> 100, throttle_damping_gain |-> 100,
      integrator_gain_pitch |-> 100, integrator_gain_throttle |-> 300,
      airspeed_error_gain |-> 200,
      height_error_gain |-> 200, height_setpoint_gain_ff |-> 300,
      pitch_speed_weight |-> 1000, load_factor_correction |-> 15000,
      load_factor |-> 1000, tas_estimate_freq |-> 2000,
      speed_derivative_time_const |-> 200, STE_rate_time_const |-> 400,
      SEB_rate_ff |-> 1000, detect_underspeed_enabled |-> TRUE ]


-----------------------------------------------------------------------------
(* The object.  A member function is an operator from the object (and the   *)
(* function's arguments) to the object as the function leaves it; a longer  *)
(* function is the composition of its statements in source order, and the   *)
(* locals that one statement hands to a later one travel in the field loc.  *)

NORMAL == "ECL_TECS_MODE_NORMAL"
UNDERSPEED == "ECL_TECS_MODE_UNDERSPEED"
BAD_DESCENT == "ECL_TECS_MODE_BAD_DESCENT"
CLIMBOUT == "ECL_TECS_MODE_CLIMBOUT"

\* AlphaFilter<float>: setParameters, reset, update, getState
AlphaFilter_setParameters(f, sample_interval, time_constant) ==
    IF time_constant + sample_interval > FLT_EPSILON
    THEN [f EXCEPT !.alpha = fdiv(sample_interval, time_constant + sample_interval)]
    ELSE f

AlphaFilter_reset(f, sample) == [f EXCEPT !.state = sample]

AlphaFilter_update(f, sample) ==
    [f EXCEPT !.state = fadd(f.state, fmul(f.alpha, fsub(sample, f.state)))]

\* the locals of one step, before any statement has run
NoLocals ==
    [ reset |-> FALSE, init |-> <<>>,
      dt |-> 0, new_tas_state |-> 0, tas_rate_divisor |-> 0,
      throttle_predicted |-> 0, STE_rate_to_throttle |-> 0, throttle_setpoint |-> 0,
      throttle_demand |-> 0, throttle_ramped |-> 0,
      SEB_rate_setpoint |-> 0, climb_angle_to_SEB_rate |-> 0, SEB_rate_correction |-> 0,
      pitch_setpoint |-> 0, pitch_increment_divisor |-> 0 ]

\* the object as constructed (the member initializers of the class), with the
\* two settings the host chooses before the first call
NewTECS(airspeed_enabled, throttle_slewrate) ==
    [ _state_update_timestamp |-> 0, _speed_update_timestamp |-> 0,
      _pitch_update_timestamp |-> 0,
      _states_initialized |-> FALSE,
      _airspeed_enabled |-> airspeed_enabled,
      _throttle_slewrate |-> throttle_slewrate,
      _dt |-> DT_DEFAULT,
      _EAS |-> 0, _vert_vel_state |-> 0, _vert_pos_state |-> 0,
      _tas_rate_raw |-> 0, _tas_rate_filtered |-> 0,
      _TAS_rate_filter |-> [alpha |-> 0, state |-> 0],
      _STE_rate_error_filter |-> [alpha |-> 0, state |-> 0],
      _EAS_setpoint |-> 0, _TAS_setpoint |-> 0, _TAS_max |-> 30000, _TAS_min |-> 3000,
      _tas_rate_state |-> 0, _tas_state |-> 0, _tas_innov |-> 0,
      _uncommanded_descent_recovery |-> FALSE, _percent_undersped |-> 0,
      _TAS_setpoint_adj |-> 0, _TAS_rate_setpoint |-> 0, _TAS_setpoint_last |-> 0,
      _hgt_setpoint |-> 0, _hgt_rate_setpoint |-> 0,
      _SPE_setpoint |-> 0, _SKE_setpoint |-> 0, _STE_error |-> 0, _SEB_error |-> 0,
      _SPE_rate_setpoint |-> 0, _SKE_rate_setpoint |-> 0,
      _SPE_estimate |-> 0, _SKE_estimate |-> 0, _SPE_rate |-> 0, _SKE_rate |-> 0,
      _STE_rate_setpoint |-> 0, _STE_rate_error |-> 0,
      _STE_rate_max |-> FLT_EPSILON, _STE_rate_min |-> -FLT_EPSILON,
      _throttle_setpoint_max |-> 0, _throttle_setpoint_min |-> 0, _throttle_trim |-> 0,
      _throttle_integ_state |-> 0, _last_throttle_setpoint |-> 0,
      _SEB_rate_error |-> 0, _pitch_integ_state |-> 0, _pitch_setpoint_unc |-> 0,
      _last_pitch_setpoint |-> 0,
      _pitch_setpoint_max |-> 500, _pitch_setpoint_min |-> -500,
      _climbout_mode_active |-> FALSE,
      _SPE_weighting |-> 1000, _SKE_weighting |-> 1000,
      _tecs_mode |-> NORMAL,
      _alt_control_traj_generator |-> [pos |-> 0, vel |-> 0],
      _velocity_control_traj_generator |-> [pos |-> NaN, vel |-> 0],
      loc |-> NoLocals ]

airspeed_sensor_enabled(s) == s._airspeed_enabled

resetIntegrals(s) == [s EXCEPT !._throttle_integ_state = 0, !._pitch_integ_state = 0]

SEB_setpoint(s) ==
    fsub(fmul(s._SPE_setpoint, s._SPE_weighting), fmul(s._SKE_setpoint, s._SKE_weighting))

-----------------------------------------------------------------------------
(* update_vehicle_state_estimates *)

\* an estimator that does not notice a long interval between its calls
reset_altitude_ignoring_gap(s, dt, altitude_lock) ==
    s._state_update_timestamp = 0 \/ ~altitude_lock

\* the local reset_altitude of update_vehicle_state_estimates
reset_altitude(s, dt, altitude_lock) ==
    (s._state_update_timestamp = 0 \/ fgt(dt, DT_MAX)) \/ ~altitude_lock

\* "if airspeed is being measured"
airspeed_measured(s, equivalent_airspeed) ==
    PX4_ISFINITE(equivalent_airspeed) /\ airspeed_sensor_enabled(s)

update_vehicle_state_estimates(s, t, equivalent_airspeed, speed_deriv_forward, altitude_lock, altitude, vz) ==
    [s EXCEPT
        !._states_initialized =
            IF reset_altitude(s, fmaxf(usec_to_sec(t - s._state_update_timestamp), DT_MIN),
                              altitude_lock)
            THEN FALSE ELSE @,
        !._state_update_timestamp = t,
        !._EAS = equivalent_airspeed,
        !._vert_vel_state = fneg(vz),
        !._vert_pos_state = altitude,
        !._tas_rate_raw =
            IF airspeed_measured(s, equivalent_airspeed) THEN speed_deriv_forward ELSE 0,
        !._TAS_rate_filter =
            IF airspeed_measured(s, equivalent_airspeed)
            THEN AlphaFilter_update(@, speed_deriv_forward) ELSE @,
        !._tas_rate_filtered =
            IF airspeed_measured(s, equivalent_airspeed)
            THEN AlphaFilter_update(s._TAS_rate_filter, speed_deriv_forward).state ELSE 0]

-----------------------------------------------------------------------------
(* _update_speed_states *)

\* "Convert equivalent airspeed quantities to true airspeed", and the airspeed
\* the filter is driven by
speed_states_inputs(s, t, equivalent_airspeed_setpoint, equivalent_airspeed, EAS2TAS) ==
    [s EXCEPT
        !.loc.dt = constrain(usec_to_sec(t - s._speed_update_timestamp), DT_MIN, DT_MAX),
        !._EAS_setpoint = equivalent_airspeed_setpoint,
        !._TAS_setpoint = fmul(equivalent_airspeed_setpoint, EAS2TAS),
        !._TAS_max = fmul(Params.equivalent_airspeed_max, EAS2TAS),
        !._TAS_min = fmul(Params.equivalent_airspeed_min, EAS2TAS),
        !._EAS = IF ~PX4_ISFINITE(equivalent_airspeed) \/ ~airspeed_sensor_enabled(s)
                 THEN Params.equivalent_airspeed_trim
                 ELSE equivalent_airspeed]

\* "If first time through reset airspeed states"
speed_states_first_time(s, EAS2TAS) ==
    IF s._speed_update_timestamp = 0
    THEN [s EXCEPT !._tas_rate_state = 0, !._tas_state = fmul(s._EAS, EAS2TAS)]
    ELSE s

speed_states_innovation(s, EAS2TAS) ==
    [s EXCEPT !._tas_innov = fsub(fmul(s._EAS, EAS2TAS), s._tas_state)]

\* "Update TAS rate state"
speed_states_rate(s) ==
    [s EXCEPT !._tas_rate_state =
        fadd(@, fmul(fmul(fmul(s._tas_innov, Params.tas_estimate_freq),
                          Params.tas_estimate_freq),
                     s.loc.dt))]

\* _tas_innov * _tas_estimate_freq * 1.4142f
tas_innov_damping(s) == fmul(fmul(s._tas_innov, Params.tas_estimate_freq), 1414)

\* "Update TAS state"
speed_states_new_tas_state(s) ==
    [s EXCEPT !.loc.new_tas_state =
        fadd(s._tas_state,
             fmul(fadd(fadd(s._tas_rate_state, s._tas_rate_raw), tas_innov_damping(s)),
                  s.loc.dt))]

\* "clip TAS at zero, back calculate rate"
speed_states_clip(s, t) ==
    IF flt(s.loc.new_tas_state, 0)
    THEN [s EXCEPT
             !._tas_rate_state =
                 fsub(fsub(fdiv(fneg(s._tas_state), s.loc.dt), s._tas_rate_raw),
                      tas_innov_damping(s)),
             !._tas_state = 0,
             !._speed_update_timestamp = t]
    ELSE [s EXCEPT
             !._tas_state = s.loc.new_tas_state,
             !._speed_update_timestamp = t]

_update_speed_states(s, t, equivalent_airspeed_setpoint, equivalent_airspeed, EAS2TAS) ==
    speed_states_clip(
        speed_states_new_tas_state(
            speed_states_rate(
                speed_states_innovation(
                    speed_states_first_time(
                        speed_states_inputs(s, t, equivalent_airspeed_setpoint,
                                            equivalent_airspeed, EAS2TAS),
                        EAS2TAS),
                    EAS2TAS))),
        t)

-----------------------------------------------------------------------------
(* _update_STE_rate_lim, _detect_underspeed, _update_speed_height_weights,  *)
(* _detect_uncommanded_descent, _update_speed_setpoint                      *)

_update_STE_rate_lim(s) ==
    [s EXCEPT
        !._STE_rate_max = fmul(max(Params.max_climb_rate, FLT_EPSILON), CONSTANTS_ONE_G),
        !._STE_rate_min = fneg(fmul(max(Params.min_sink_rate, FLT_EPSILON), CONSTANTS_ONE_G))]

\* a detector that never finds an underspeed
_detect_underspeed_off(s) == [s EXCEPT !._percent_undersped = 0]

tas_error_bound == fmul(kTASErrorPercentage, Params.equivalent_airspeed_trim)

tas_underspeed_soft_bound == fmul(kTASErrorPercentage, Params.equivalent_airspeed_trim)

tas_fully_undersped(s) ==
    max(fsub(fsub(s._TAS_min, tas_error_bound), tas_underspeed_soft_bound), 0)

tas_starting_to_underspeed(s) ==
    max(fsub(s._TAS_min, tas_error_bound), tas_fully_undersped(s))

_detect_underspeed(s) ==
    IF ~Params.detect_underspeed_enabled
    THEN [s EXCEPT !._percent_undersped = 0]
    ELSE [s EXCEPT !._percent_undersped =
             fsub(SCALE,
                  constrain(fdiv(fsub(s._tas_state, tas_fully_undersped(s)),
                                 max(fsub(tas_starting_to_underspeed(s),
                                          tas_fully_undersped(s)),
                                     FLT_EPSILON)),
                            0, SCALE))]

\* the local pitch_speed_weight of _update_speed_height_weights
pitch_speed_weight(s) ==
    IF s._climbout_mode_active /\ airspeed_sensor_enabled(s) THEN 2 * SCALE
    ELSE IF fgt(s._percent_undersped, FLT_EPSILON) /\ airspeed_sensor_enabled(s)
         THEN fadd(fmul(2 * SCALE, s._percent_undersped),
                   fmul(fsub(SCALE, s._percent_undersped),
                        constrain(Params.pitch_speed_weight, 0, 2 * SCALE)))
    ELSE IF ~airspeed_sensor_enabled(s) THEN 0
    ELSE constrain(Params.pitch_speed_weight, 0, 2 * SCALE)

_update_speed_height_weights(s) ==
    [s EXCEPT
        !._SPE_weighting = constrain(fsub(2 * SCALE, pitch_speed_weight(s)), 0, SCALE),
        !._SKE_weighting = constrain(pitch_speed_weight(s), 0, SCALE)]

\* a detector that sets the latch also while underspeed is detected
enter_mode_ignoring_underspeed(s) ==
    /\ ~s._uncommanded_descent_recovery
    /\ fgt(s._STE_error, 200 * SCALE)
    /\ flt(fadd(s._SPE_rate, s._SKE_rate), 0)
    /\ fge(s._last_throttle_setpoint, fmul(s._throttle_setpoint_max, 900))

\* the locals underspeed_detected, enter_mode and exit_mode of
\* _detect_uncommanded_descent
underspeed_detected(s) == fgt(s._percent_undersped, FLT_EPSILON)

enter_mode(s) ==
    /\ ~s._uncommanded_descent_recovery
    /\ ~underspeed_detected(s)
    /\ fgt(s._STE_error, 200 * SCALE)
    /\ flt(fadd(s._SPE_rate, s._SKE_rate), 0)
    /\ fge(s._last_throttle_setpoint, fmul(s._throttle_setpoint_max, 900))

exit_mode(s) ==
    s._uncommanded_descent_recovery /\ (underspeed_detected(s) \/ flt(s._STE_error, 0))

_detect_uncommanded_descent(s) ==
    [s EXCEPT !._uncommanded_descent_recovery =
        IF enter_mode(s) THEN TRUE ELSE IF exit_mode(s) THEN FALSE ELSE @]

\* a speed demand that follows the latch as it was before the detector ran
speed_setpoint_demand_from_previous_latch(s) ==
    [s EXCEPT !._TAS_setpoint =
        constrain(IF s.loc.init._uncommanded_descent_recovery THEN s._TAS_min
                  ELSE IF fgt(s._percent_undersped, FLT_EPSILON)
                       THEN fadd(fmul(s._TAS_min, s._percent_undersped),
                                 fmul(fsub(SCALE, s._percent_undersped), s._TAS_setpoint))
                  ELSE s._TAS_setpoint,
                  s._TAS_min, s._TAS_max)]

\* "Set the TAS demand to the minimum value if an underspeed or or a
\* uncontrolled descent condition exists"
speed_setpoint_demand(s) ==
    [s EXCEPT !._TAS_setpoint =
        constrain(IF s._uncommanded_descent_recovery THEN s._TAS_min
                  ELSE IF fgt(s._percent_undersped, FLT_EPSILON)
                       THEN fadd(fmul(s._TAS_min, s._percent_undersped),
                                 fmul(fsub(SCALE, s._percent_undersped), s._TAS_setpoint))
                  ELSE s._TAS_setpoint,
                  s._TAS_min, s._TAS_max)]

speed_setpoint_adj(s) ==
    [s EXCEPT
        !.loc.tas_rate_divisor = max(s._tas_state, FLT_EPSILON),
        !._TAS_setpoint_adj = constrain(s._TAS_setpoint, s._TAS_min, s._TAS_max)]

\* "calculate the demanded true airspeed rate of change"
speed_setpoint_rate(s) ==
    [s EXCEPT !._TAS_rate_setpoint =
        IF airspeed_sensor_enabled(s)
        THEN constrain(fmul(fsub(s._TAS_setpoint_adj, s._tas_state),
                            Params.airspeed_error_gain),
                       fdiv(fmul(500, s._STE_rate_min), s.loc.tas_rate_divisor),
                       fdiv(fmul(500, s._STE_rate_max), s.loc.tas_rate_divisor))
        ELSE 0]

_update_speed_setpoint(s) ==
    speed_setpoint_rate(speed_setpoint_adj(speed_setpoint_demand(s)))

-----------------------------------------------------------------------------
(* The two trajectory generators (lib/motion_planning): the altitude        *)
(* generator carries a position and a velocity and follows a velocity       *)
(* target under the acceleration limit; the velocity generator does the     *)
(* same for a commanded height rate and locks a position while it rests.    *)

RECURSIVE isqrt_between(_, _, _)
isqrt_probe(x, lo, hi, mid) ==
    IF mid * mid <= x THEN isqrt_between(x, mid, hi) ELSE isqrt_between(x, lo, mid - 1)

isqrt_between(x, lo, hi) ==
    IF lo >= hi THEN lo ELSE isqrt_probe(x, lo, hi, (lo + hi + 1) \div 2)

\* the largest speed from which the target at `distance` is still reached at rest
computeMaxSpeedFromDistance(accel, distance) == isqrt_between(2 * accel * distance, 0, 46340)

signNoZero(x) == IF x >= 0 THEN 1 ELSE -1

\* the velocity nearest to the target that the acceleration limit allows
accel_limited(vel, vel_target, dv) == constrain(vel_target, fsub(vel, dv), fadd(vel, dv))

VelocitySmoothing_integrate(gen, vel, dt) ==
    [gen EXCEPT !.vel = vel, !.pos = fadd(gen.pos, fmul(vel, dt))]

VelocitySmoothing_update(gen, vel_target, dt) ==
    VelocitySmoothing_integrate(
        gen, accel_limited(gen.vel, vel_target, fmul(Params.vert_accel_limit, dt)), dt)

ManualVelocitySmoothingZ_lock(gen, position_estimate, vel_target, vel) ==
    [gen EXCEPT
        !.vel = vel,
        !.pos = IF fgt(fabsf(vel), FLT_EPSILON) \/ fgt(fabsf(vel_target), FLT_EPSILON)
                THEN NaN
                ELSE IF isnan(gen.pos) THEN position_estimate ELSE gen.pos]

ManualVelocitySmoothingZ_update(gen, position_estimate, vel_target, dt) ==
    ManualVelocitySmoothingZ_lock(
        gen, position_estimate, vel_target,
        constrain(accel_limited(gen.vel, vel_target, fmul(Params.vert_accel_limit, dt)),
                  fneg(Params.max_climb_rate), Params.max_sink_rate))

resetTrajectoryGenerators(s, altitude) ==
    [s EXCEPT !._alt_control_traj_generator = [pos |-> altitude, vel |-> 0],
              !._velocity_control_traj_generator = [pos |-> altitude, vel |-> 0]]

-----------------------------------------------------------------------------
(* runAltitudeControllerSmoothVelocity, _calculateHeightRateSetpoint,       *)
(* _update_energy_estimates                                                 *)

\* signNoZero(delta) * computeMaxSpeedFromDistance(jerk, accel, |delta|, 0)
speed_to_target(delta_trajectory_to_target_m) ==
    IF isnan(delta_trajectory_to_target_m) THEN NaN
    ELSE signNoZero(delta_trajectory_to_target_m) *
         computeMaxSpeedFromDistance(Params.vert_accel_limit,
                                     Abs(delta_trajectory_to_target_m))

\* the local height_rate_target
height_rate_target(s, alt_sp_amsl_m, target_climbrate_m_s, target_sinkrate_m_s) ==
    constrain(speed_to_target(fsub(alt_sp_amsl_m, s._alt_control_traj_generator.pos)),
              fneg(min(target_sinkrate_m_s, Params.max_sink_rate)),
              min(target_climbrate_m_s, Params.max_climb_rate))

\* updateDurations(height_rate_target); updateTraj(_dt)
altitude_traj_update(s, vel_target) ==
    [s EXCEPT !._alt_control_traj_generator = VelocitySmoothing_update(@, vel_target, s._dt)]

altitude_traj_setpoints(s, alt_amsl) ==
    [s EXCEPT
        !._hgt_setpoint = s._alt_control_traj_generator.pos,
        !._hgt_rate_setpoint =
            constrain(fadd(fmul(fsub(s._alt_control_traj_generator.pos, alt_amsl),
                                Params.height_error_gain),
                           fmul(Params.height_setpoint_gain_ff,
                                s._alt_control_traj_generator.vel)),
                      fneg(Params.max_sink_rate), Params.max_climb_rate)]

runAltitudeControllerSmoothVelocity(s, alt_sp_amsl_m, target_climbrate_m_s, target_sinkrate_m_s, alt_amsl) ==
    altitude_traj_setpoints(
        altitude_traj_update(
            s, height_rate_target(s, alt_sp_amsl_m, target_climbrate_m_s,
                                  target_sinkrate_m_s)),
        alt_amsl)

\* the velocity generator follows the commanded height rate, or is reset to the
\* setpoints while a height is commanded
velocity_traj_update(s, height_rate_sp, altitude_amsl) ==
    IF PX4_ISFINITE(height_rate_sp)
    THEN [s EXCEPT !._velocity_control_traj_generator =
             ManualVelocitySmoothingZ_update(@, altitude_amsl, height_rate_sp, s._dt)]
    ELSE [s EXCEPT !._velocity_control_traj_generator =
             [pos |-> s._hgt_setpoint, vel |-> s._hgt_rate_setpoint]]

velocity_traj_setpoint(s, height_rate_sp) ==
    IF PX4_ISFINITE(height_rate_sp)
    THEN [s EXCEPT !._hgt_rate_setpoint = s._velocity_control_traj_generator.vel]
    ELSE s

\* "if (control_altitude) ... else ..."
height_control(s, altitude_sp_amsl, height_rate_sp, target_climbrate, target_sinkrate, altitude_amsl) ==
    IF ~PX4_ISFINITE(height_rate_sp)
    THEN runAltitudeControllerSmoothVelocity(s, altitude_sp_amsl, target_climbrate,
                                             target_sinkrate, altitude_amsl)
    ELSE IF PX4_ISFINITE(s._velocity_control_traj_generator.pos)
    THEN runAltitudeControllerSmoothVelocity(s, s._velocity_control_traj_generator.pos,
                                             target_climbrate, target_sinkrate, altitude_amsl)
    ELSE [s EXCEPT
             !._alt_control_traj_generator =
                 [pos |-> altitude_amsl, vel |-> s._hgt_rate_setpoint],
             !._hgt_setpoint = altitude_amsl]

_calculateHeightRateSetpoint(s, altitude_sp_amsl, height_rate_sp, target_climbrate, target_sinkrate, altitude_amsl) ==
    height_control(
        velocity_traj_setpoint(velocity_traj_update(s, height_rate_sp, altitude_amsl),
                               height_rate_sp),
        altitude_sp_amsl, height_rate_sp, target_climbrate, target_sinkrate, altitude_amsl)

\* "Calculate specific energy demands"
energy_setpoints(s) ==
    [s EXCEPT
        !._SPE_setpoint = fmul(s._hgt_setpoint, CONSTANTS_ONE_G),
        !._SKE_setpoint = fmul(fmul(500, s._TAS_setpoint_adj), s._TAS_setpoint_adj)]

\* the errors against the estimates of the previous step, then the estimates
energy_errors_and_estimates(s) ==
    [s EXCEPT
        !._STE_error =
            fsub(fadd(fsub(s._SPE_setpoint, s._SPE_estimate), s._SKE_setpoint),
                 s._SKE_estimate),
        !._SEB_error =
            fsub(SEB_setpoint(s),
                 fsub(fmul(s._SPE_estimate, s._SPE_weighting),
                      fmul(s._SKE_estimate, s._SKE_weighting))),
        !._SPE_rate_setpoint = fmul(s._hgt_rate_setpoint, CONSTANTS_ONE_G),
        !._SKE_rate_setpoint = fmul(s._tas_state, s._TAS_rate_setpoint),
        !._SPE_estimate = fmul(s._vert_pos_state, CONSTANTS_ONE_G),
        !._SKE_estimate = fmul(fmul(500, s._tas_state), s._tas_state),
        !._SPE_rate = fmul(s._vert_vel_state, CONSTANTS_ONE_G),
        !._SKE_rate = fmul(s._tas_state, s._tas_rate_filtered)]

_update_energy_estimates(s) == energy_errors_and_estimates(energy_setpoints(s))

-----------------------------------------------------------------------------
(* _update_throttle_setpoint *)

\* "Calculate the total energy rate error, applying a first order IIR filter"
throttle_rate_error_filter(s) ==
    [s EXCEPT !._STE_rate_error_filter =
        AlphaFilter_update(@, fadd(fadd(fsub(fneg(s._SPE_rate), s._SKE_rate),
                                        s._SPE_rate_setpoint),
                                   s._SKE_rate_setpoint))]

\* "Calculate demanded rate of change of total energy, respecting vehicle limits"
throttle_rate_setpoint(s) ==
    [s EXCEPT
        !._STE_rate_error = s._STE_rate_error_filter.state,
        !._STE_rate_setpoint =
            constrain(fadd(fadd(s._SPE_rate_setpoint, s._SKE_rate_setpoint),
                           fmul(Params.load_factor_correction,
                                fsub(Params.load_factor, SCALE))),
                      s._STE_rate_min, s._STE_rate_max)]

\* "Calculate a predicted throttle from the demanded rate of change of energy"
throttle_feedforward(s) ==
    [s EXCEPT
        !.loc.throttle_predicted =
            IF fge(s._STE_rate_setpoint, 0)
            THEN fadd(s._throttle_trim,
                      fmul(fdiv(s._STE_rate_setpoint, s._STE_rate_max),
                           fsub(s._throttle_setpoint_max, s._throttle_trim)))
            ELSE fadd(s._throttle_trim,
                      fmul(fdiv(s._STE_rate_setpoint, s._STE_rate_min),
                           fsub(s._throttle_setpoint_min, s._throttle_trim))),
        !.loc.STE_rate_to_throttle = fdiv(SCALE, fsub(s._STE_rate_max, s._STE_rate_min))]

\* "Add proportional and derivative control feedback to the predicted throttle
\* and constrain to throttle limits"
throttle_feedback(s) ==
    [s EXCEPT !.loc.throttle_setpoint =
        constrain(fadd(fmul(fmul(s._STE_rate_error, Params.throttle_damping_gain),
                            s.loc.STE_rate_to_throttle),
                       s.loc.throttle_predicted),
                  s._throttle_setpoint_min, s._throttle_setpoint_max)]

\* the locals integ_state_max and integ_state_min
integ_state_max(s) == fsub(s._throttle_setpoint_max, s.loc.throttle_setpoint)

integ_state_min(s) == fsub(s._throttle_setpoint_min, s.loc.throttle_setpoint)

\* "only allow integrator propagation into direction which unsaturates throttle"
throttle_integ_input(s, input) ==
    IF fgt(s._throttle_integ_state, integ_state_max(s)) THEN min(0, input)
    ELSE IF flt(s._throttle_integ_state, integ_state_min(s)) THEN max(0, input)
    ELSE input

\* "Integral handling"
throttle_integrator(s) ==
    IF ~airspeed_sensor_enabled(s) THEN s
    ELSE IF ~(Params.integrator_gain_throttle > 0)
    THEN [s EXCEPT !._throttle_integ_state = 0]
    ELSE IF s._climbout_mode_active
    THEN [s EXCEPT !._throttle_integ_state = integ_state_max(s)]
    ELSE [s EXCEPT !._throttle_integ_state =
             fadd(@, throttle_integ_input(
                         s, fmul(fmul(fmul(fmul(s._STE_rate_error,
                                                Params.integrator_gain_throttle),
                                           s._dt),
                                      s.loc.STE_rate_to_throttle),
                                 fsub(SCALE, s._percent_undersped))))]

\* the throttle demand: closed loop with an airspeed sensor, the predicted
\* throttle without
throttle_demand(s) ==
    IF airspeed_sensor_enabled(s)
    THEN fadd(s.loc.throttle_setpoint, s._throttle_integ_state)
    ELSE s.loc.throttle_predicted

throttle_closed_loop(s) ==
    [s EXCEPT !.loc.throttle_setpoint = throttle_demand(s),
              !.loc.throttle_demand = throttle_demand(s)]

\* "ramp in max throttle setting with underspeediness value"
throttle_ramped(s) ==
    fadd(fmul(s._percent_undersped, s._throttle_setpoint_max),
         fmul(fsub(SCALE, s._percent_undersped), s.loc.throttle_setpoint))

throttle_underspeed_ramp(s) ==
    [s EXCEPT !.loc.throttle_setpoint = throttle_ramped(s),
              !.loc.throttle_ramped = throttle_ramped(s)]

\* a throttle law without slew limit
slew_limit_throttle_off(s, throttle_setpoint, throttle_increment_limit) ==
    throttle_setpoint

\* "Rate limit the throttle demand"
slew_limit_throttle(s, throttle_setpoint, throttle_increment_limit) ==
    constrain(throttle_setpoint,
              fsub(s._last_throttle_setpoint, throttle_increment_limit),
              fadd(s._last_throttle_setpoint, throttle_increment_limit))

throttle_rate_limit(s) ==
    IF fgt(fabsf(s._throttle_slewrate), 10)
    THEN [s EXCEPT !.loc.throttle_setpoint =
             slew_limit_throttle(
                 s, @,
                 fmul(fmul(s._dt, fsub(s._throttle_setpoint_max, s._throttle_setpoint_min)),
                      s._throttle_slewrate))]
    ELSE s

throttle_publish(s) ==
    [s EXCEPT !._last_throttle_setpoint =
        constrain(s.loc.throttle_setpoint, s._throttle_setpoint_min, s._throttle_setpoint_max)]

_update_throttle_setpoint(s) ==
    throttle_publish(
        throttle_rate_limit(
            throttle_underspeed_ramp(
                throttle_closed_loop(
                    throttle_integrator(
                        throttle_feedback(
                            throttle_feedforward(
                                throttle_rate_setpoint(
                                    throttle_rate_error_filter(s)))))))))

-----------------------------------------------------------------------------
(* _update_pitch_setpoint *)

\* "Calculate the specific energy balance rate demand"
pitch_rate_demand(s) ==
    [s EXCEPT
        !.loc.SEB_rate_setpoint =
            fsub(fmul(s._SPE_rate_setpoint, s._SPE_weighting),
                 fmul(s._SKE_rate_setpoint, s._SKE_weighting)),
        !.loc.climb_angle_to_SEB_rate = fmul(s._tas_state, CONSTANTS_ONE_G)]

\* "Calculate the specific energy balance rate error"
pitch_rate_error(s) ==
    [s EXCEPT !._SEB_rate_error =
        fsub(s.loc.SEB_rate_setpoint,
             fsub(fmul(s._SPE_rate, s._SPE_weighting), fmul(s._SKE_rate, s._SKE_weighting)))]

\* "Prevent the integrator changing in a direction that will increase pitch
\* demand saturation"
pitch_integ_input(s, input) ==
    IF fgt(s._pitch_setpoint_unc, s._pitch_setpoint_max) THEN min(input, 0)
    ELSE IF flt(s._pitch_setpoint_unc, s._pitch_setpoint_min) THEN max(input, 0)
    ELSE input

pitch_integrator(s) ==
    IF Params.integrator_gain_pitch > 0
    THEN [s EXCEPT !._pitch_integ_state =
             fadd(@, fmul(pitch_integ_input(
                              s, fmul(s._SEB_rate_error, Params.integrator_gain_pitch)),
                          s._dt))]
    ELSE [s EXCEPT !._pitch_integ_state = 0]

\* the specific energy balance rate correction
pitch_correction(s) ==
    [s EXCEPT !.loc.SEB_rate_correction =
        fadd(fadd(fmul(s._SEB_rate_error, Params.pitch_damping_gain), s._pitch_integ_state),
             fmul(Params.SEB_rate_ff, s.loc.SEB_rate_setpoint))]

\* "During climbout, bias the demanded pitch angle"
pitch_climbout_bias(s) ==
    IF s._climbout_mode_active
    THEN [s EXCEPT !.loc.SEB_rate_correction =
             fadd(@, fmul(s._pitch_setpoint_min, s.loc.climb_angle_to_SEB_rate))]
    ELSE s

\* "Convert the specific energy balance rate correction to a target pitch angle"
pitch_unconstrained(s) ==
    [s EXCEPT !._pitch_setpoint_unc =
        fdiv(s.loc.SEB_rate_correction, s.loc.climb_angle_to_SEB_rate)]

pitch_constrained(s) ==
    [s EXCEPT !.loc.pitch_setpoint =
        constrain(s._pitch_setpoint_unc, s._pitch_setpoint_min, s._pitch_setpoint_max)]

\* a pitch law without rate limit
rate_limit_pitch_off(s, pitch_setpoint, pitch_increment) ==
    pitch_setpoint

\* "Comply with the specified vertical acceleration limit by applying a pitch rate limit"
rate_limit_pitch(s, pitch_setpoint, pitch_increment) ==
    constrain(pitch_setpoint, fsub(s._last_pitch_setpoint, pitch_increment),
              fadd(s._last_pitch_setpoint, pitch_increment))

pitch_publish(s) ==
    [s EXCEPT
        !.loc.pitch_increment_divisor = s._tas_state,
        !._last_pitch_setpoint =
            rate_limit_pitch(s, s.loc.pitch_setpoint,
                             fdiv(fmul(s._dt, Params.vert_accel_limit), s._tas_state))]

_update_pitch_setpoint(s) ==
    pitch_publish(
        pitch_constrained(
            pitch_unconstrained(
                pitch_climbout_bias(
                    pitch_correction(
                        pitch_integrator(
                            pitch_rate_error(
                                pitch_rate_demand(s))))))))

-----------------------------------------------------------------------------
(* _initialize_states *)

\* an initializer that does not notice a long interval between steps
initializer_triggers_ignoring_dt(s) ==
    s._pitch_update_timestamp = 0 \/ ~s._states_initialized

\* the condition under which _initialize_states resets the states
initializer_triggers(s) ==
    s._pitch_update_timestamp = 0 \/ fgt(s._dt, DT_MAX) \/ ~s._states_initialized

\* "On first time through or when not using TECS of if there has been a large
\* time slip, states must be reset to allow filters to a clean start"
reset_states(s, pitch, throttle_trim, baro_altitude, EAS2TAS) ==
    resetTrajectoryGenerators(
        [resetIntegrals(s) EXCEPT
            !._vert_vel_state = 0,
            !._vert_pos_state = baro_altitude,
            !._tas_rate_state = 0,
            !._tas_state = fmul(s._EAS, EAS2TAS),
            !._last_throttle_setpoint = throttle_trim,
            !._last_pitch_setpoint =
                constrain(pitch, s._pitch_setpoint_min, s._pitch_setpoint_max),
            !._pitch_setpoint_unc =
                constrain(pitch, s._pitch_setpoint_min, s._pitch_setpoint_max),
            !._TAS_setpoint_last = fmul(s._EAS, EAS2TAS),
            !._TAS_setpoint_adj = fmul(s._EAS, EAS2TAS),
            !._uncommanded_descent_recovery = FALSE,
            !._STE_rate_error = 0,
            !._hgt_setpoint = baro_altitude,
            !._dt = IF fgt(s._dt, DT_MAX) \/ flt(s._dt, DT_MIN) THEN DT_DEFAULT ELSE @],
        baro_altitude)

\* "During climbout use the lower pitch angle limit specified by the calling
\* controller"
climbout_states(s, baro_altitude, pitch_min_climbout, EAS2TAS) ==
    [s EXCEPT
        !._pitch_setpoint_min = pitch_min_climbout,
        !._throttle_setpoint_min = fsub(s._throttle_setpoint_max, 10),
        !._TAS_setpoint_last = fmul(s._EAS, EAS2TAS),
        !._TAS_setpoint_adj = fmul(s._EAS, EAS2TAS),
        !._hgt_setpoint = baro_altitude,
        !._uncommanded_descent_recovery = FALSE]

\* the two filters are given their parameters and reset in every step
reset_filters(s) ==
    [s EXCEPT
        !._STE_rate_error_filter =
            AlphaFilter_reset(
                AlphaFilter_setParameters(@, DT_DEFAULT, Params.STE_rate_time_const), 0),
        !._TAS_rate_filter =
            AlphaFilter_reset(
                AlphaFilter_setParameters(@, DT_DEFAULT, Params.speed_derivative_time_const),
                0),
        !._states_initialized = TRUE]

_initialize_states(s, pitch, throttle_trim, baro_altitude, pitch_min_climbout, EAS2TAS) ==
    reset_filters(
        IF initializer_triggers(s)
        THEN reset_states([s EXCEPT !.loc.reset = TRUE],
                          pitch, throttle_trim, baro_altitude, EAS2TAS)
        ELSE IF s._climbout_mode_active
        THEN climbout_states(s, baro_altitude, pitch_min_climbout, EAS2TAS)
        ELSE s)

-----------------------------------------------------------------------------
(* update_pitch_throttle *)

\* a mode selection that lets climbout take precedence over the descent latch
select_tecs_mode_climbout_first(s) ==
    IF fgt(s._percent_undersped, FLT_EPSILON) THEN UNDERSPEED
    ELSE IF s._climbout_mode_active THEN CLIMBOUT
    ELSE IF s._uncommanded_descent_recovery THEN BAD_DESCENT
    ELSE NORMAL

\* "Set TECS mode for next frame"
select_tecs_mode(s) ==
    IF fgt(s._percent_undersped, FLT_EPSILON) THEN UNDERSPEED
    ELSE IF s._uncommanded_descent_recovery THEN BAD_DESCENT
    ELSE IF s._climbout_mode_active THEN CLIMBOUT
    ELSE NORMAL

\* "Calculate the time since last update", "Set class variables from inputs"
set_class_variables(s, t, in) ==
    [s EXCEPT
        !.loc = NoLocals,
        !._dt = fmaxf(usec_to_sec(t - s._pitch_update_timestamp), DT_MIN),
        !._throttle_setpoint_max = in.throttle_max,
        !._throttle_setpoint_min = in.throttle_min,
        !._pitch_setpoint_max = in.pitch_limit_max,
        !._pitch_setpoint_min = in.pitch_limit_min,
        !._climbout_mode_active = in.climb_out_setpoint,
        !._throttle_trim = in.throttle_trim]

\* the states the control laws start from, as _initialize_states leaves them
initialised(s) ==
    [ _last_throttle_setpoint |-> s._last_throttle_setpoint,
      _last_pitch_setpoint |-> s._last_pitch_setpoint,
      _hgt_setpoint |-> s._hgt_setpoint,
      _throttle_integ_state |-> s._throttle_integ_state,
      _pitch_integ_state |-> s._pitch_integ_state,
      _uncommanded_descent_recovery |-> s._uncommanded_descent_recovery,
      _tas_state |-> s._tas_state,
      _STE_rate_error_filter |-> s._STE_rate_error_filter,
      _TAS_rate_filter |-> s._TAS_rate_filter ]

note_initialised(s) == [s EXCEPT !.loc.init = initialised(s)]

\* "Update time stamps", "Set TECS mode for next frame"
set_tecs_mode(s, t) ==
    [s EXCEPT !._pitch_update_timestamp = t, !._tecs_mode = select_tecs_mode(s)]

update_pitch_throttle(s, t, in) ==
    LET s1 == _initialize_states(set_class_variables(s, t, in), in.pitch, in.throttle_trim,
                                 in.baro_altitude, in.pitch_min_climbout, in.eas_to_tas)
        s2 == note_initialised(s1)
        s3 == _update_speed_states(s2, t, in.EAS_setpoint, in.equivalent_airspeed,
                                   in.eas_to_tas)
        s4 == _update_STE_rate_lim(s3)
        s5 == _detect_underspeed(s4)
        s6 == _update_speed_height_weights(s5)
        s7 == _detect_uncommanded_descent(s6)
        s8 == _update_speed_setpoint(s7)
        s9 == _calculateHeightRateSetpoint(s8, in.hgt_setpoint, in.hgt_rate_sp,
                                           in.target_climbrate, in.target_sinkrate,
                                           in.baro_altitude)
        s10 == _update_energy_estimates(s9)
        s11 == _update_throttle_setpoint(s10)
        s12 == _update_pitch_setpoint(s11)
    IN  set_tecs_mode(s12, t)

-----------------------------------------------------------------------------
(* The host: one control loop that calls the two entry points and the       *)
(* airspeed setter in any order, at times of its choosing.  obs is its log  *)
(* of the last call and of what it has asked for since the last step.       *)

NominalInputs ==
    [ pitch |-> 0, baro_altitude |-> 50000, hgt_setpoint |-> 50000,
      EAS_setpoint |-> 20000, equivalent_airspeed |-> 20000, eas_to_tas |-> 1000,
      climb_out_setpoint |-> FALSE, pitch_min_climbout |-> 170,
      throttle_min |-> 0, throttle_max |-> 1000, throttle_trim |-> 500,
      pitch_limit_min |-> -500, pitch_limit_max |-> 500,
      target_climbrate |-> 3000, target_sinkrate |-> 2000, hgt_rate_sp |-> NaN ]

NominalEstimate ==
    [ equivalent_airspeed |-> 20000, speed_deriv_forward |-> 0, altitude_lock |-> TRUE,
      altitude |-> 50000, vz |-> 0 ]

\* what the host has observed: the last call (op, its arguments in, the
\* controller before it in pre), the times of its last calls, the reasons for
\* a reset that arose since the last step (reset_due) and those that held
\* when the last step was called (expect)
NoCall == [op |-> "none", in |-> <<>>, pre |-> <<>>, gap |-> 0,
           estimate_time |-> 0, step_time |-> 0, reset_due |-> {}, expect |-> {}]

Init ==
    /\ \E a \in BOOLEAN, r \in {0, 500} : tecs = NewTECS(a, r)
    /\ now = 5000000
    /\ calls = 0
    /\ obs = NoCall

EstimateCall(inputs, gaps, limit) ==
    /\ calls < limit
    /\ \E g \in gaps, e \in inputs :
          /\ now' = now + g
          /\ tecs' = update_vehicle_state_estimates(tecs, now', e.equivalent_airspeed,
                         e.speed_deriv_forward, e.altitude_lock, e.altitude, e.vz)
          /\ obs' = [obs EXCEPT
                        !.op = "update_vehicle_state_estimates", !.in = e, !.pre = tecs,
                        !.gap = g, !.estimate_time = now',
                        !.reset_due = @ \cup
                            (IF obs.estimate_time = 0 THEN {"first_estimate"}
                             ELSE IF now' - obs.estimate_time > 1000000
                                  THEN {"estimate_gap"} ELSE {}) \cup
                            (IF e.altitude_lock THEN {} ELSE {"altitude_lock"})]
    /\ calls' = calls + 1

StepCall(inputs, gaps, limit) ==
    /\ calls < limit
    /\ \E g \in gaps, h \in inputs :
          /\ now' = now + g
          /\ tecs' = update_pitch_throttle(tecs, now', h)
          /\ obs' = [obs EXCEPT
                        !.op = "update_pitch_throttle", !.in = h, !.pre = tecs,
                        !.gap = g, !.step_time = now', !.reset_due = {},
                        !.expect = obs.reset_due \cup
                            (IF obs.step_time = 0 THEN {"first_step"}
                             ELSE IF now' - obs.step_time > 1000000
                                  THEN {"step_gap"} ELSE {})]
    /\ calls' = calls + 1

enable_airspeed(limit) ==
    /\ calls < limit
    /\ \E enabled \in BOOLEAN :
          /\ enabled # tecs._airspeed_enabled
          /\ tecs' = [tecs EXCEPT !._airspeed_enabled = enabled]
          /\ obs' = [obs EXCEPT !.op = "enable_airspeed", !.in = enabled, !.pre = tecs]
    /\ calls' = calls + 1
    /\ UNCHANGED now

-----------------------------------------------------------------------------
(* Spec: any calls, at short and long intervals, with inputs that change    *)
(* limits, lose the airspeed measurement and stop the aircraft.             *)

MaxCalls == 3

\* time that passes before a call, in microseconds
Gaps == {20000, 1500000}

HostInputs ==
    { NominalInputs,
      [NominalInputs EXCEPT !.climb_out_setpoint = TRUE],
      [NominalInputs EXCEPT !.climb_out_setpoint = TRUE,
                            !.throttle_min = 800, !.throttle_max = 800],
      [NominalInputs EXCEPT !.equivalent_airspeed = NaN],
      [NominalInputs EXCEPT !.equivalent_airspeed = 0],
      [NominalInputs EXCEPT !.throttle_min = 800, !.throttle_max = 800,
                            !.pitch_limit_min = 100, !.pitch_limit_max = 300] }

EstimatorInputs ==
    { NominalEstimate,
      [NominalEstimate EXCEPT !.equivalent_airspeed = NaN, !.altitude_lock = FALSE] }

Next ==
    \/ EstimateCall(EstimatorInputs, Gaps, MaxCalls)
    \/ StepCall(HostInputs, Gaps, MaxCalls)
    \/ enable_airspeed(MaxCalls)

Spec == Init /\ [][Next]_vars

-----------------------------------------------------------------------------
(* SpecFlight: a slow, sinking flight below the height setpoint at the      *)
(* nominal rate, with the throttle limited to its trim value and a speed    *)
(* demand the aircraft cannot meet.                                         *)

MaxFlightCalls == 6

FlightGaps == {20000}

SlowFlight ==
    [NominalInputs EXCEPT !.throttle_max = 500, !.EAS_setpoint = 30000,
                          !.equivalent_airspeed = 8000]

FlightInputs ==
    { SlowFlight,
      [SlowFlight EXCEPT !.climb_out_setpoint = TRUE],
      [SlowFlight EXCEPT !.equivalent_airspeed = 5000] }

FlightEstimates ==
    { [NominalEstimate EXCEPT !.equivalent_airspeed = 8000, !.altitude = 20000,
                              !.vz = 2000] }

NextFlight ==
    \/ EstimateCall(FlightEstimates, FlightGaps, MaxFlightCalls)
    \/ StepCall(FlightInputs, FlightGaps, MaxFlightCalls)
    \/ enable_airspeed(MaxFlightCalls)

SpecFlight == Init /\ [][NextFlight]_vars

-----------------------------------------------------------------------------
(* SpecReset: nominal inputs at intervals of which two or three add up to   *)
(* more than a second, with and without altitude lock.                      *)

MaxResetCalls == 5

ResetGaps == {20000, 500000}

ResetEstimates ==
    { NominalEstimate, [NominalEstimate EXCEPT !.altitude_lock = FALSE] }

NextReset ==
    \/ EstimateCall(ResetEstimates, ResetGaps, MaxResetCalls)
    \/ StepCall({NominalInputs}, ResetGaps, MaxResetCalls)

SpecReset == Init /\ [][NextReset]_vars

-----------------------------------------------------------------------------
(* SpecSpeed: steps at the nominal rate with the measured airspeed at trim, *)
(* at the minimum, inside the underspeed ramp and below it, and estimates   *)
(* with and without a forward acceleration.                                 *)

MaxSpeedCalls == 4

SpeedGaps == {20000}

SpeedInputs ==
    { NominalInputs,
      [NominalInputs EXCEPT !.equivalent_airspeed = 10000],
      [NominalInputs EXCEPT !.equivalent_airspeed = 7000],
      [NominalInputs EXCEPT !.equivalent_airspeed = 5000],
      [NominalInputs EXCEPT !.equivalent_airspeed = 5000, !.climb_out_setpoint = TRUE] }

SpeedEstimates ==
    { [NominalEstimate EXCEPT !.equivalent_airspeed = 10000, !.speed_deriv_forward = 1000],
      [NominalEstimate EXCEPT !.equivalent_airspeed = 5000] }

NextSpeed ==
    \/ EstimateCall(SpeedEstimates, SpeedGaps, MaxSpeedCalls)
    \/ StepCall(SpeedInputs, SpeedGaps, MaxSpeedCalls)
    \/ enable_airspeed(MaxSpeedCalls)

SpecSpeed == Init /\ [][NextSpeed]_vars

-----------------------------------------------------------------------------
(* Properties.  Stepped holds in the state an update_pitch_throttle call    *)
(* leaves behind: obs.in are its arguments, obs.pre the controller before   *)
(* the call, tecs.loc the intermediate values of the call.                  *)

Stepped == obs.op = "update_pitch_throttle"

\* the step re-initialised the states
Reinitialised == tecs.loc.reset

\* the step is not the first one
HasPreviousStep == obs.pre._pitch_update_timestamp # 0

\* what the host may expect from the documented reset conditions
ResetExpected == obs.expect # {}

\* the step is stale: the first one, or more than a second after the previous
Stale == obs.expect \cap {"first_step", "step_gap"} # {}

ClampedPitch == constrain(obs.in.pitch, obs.in.pitch_limit_min, obs.in.pitch_limit_max)

\* C1: after every update_pitch_throttle the published throttle lies within
\* the throttle_min and throttle_max the host passed to that call.
C1_ThrottleWithinHostLimits ==
    Stepped => /\ fle(obs.in.throttle_min, tecs._last_throttle_setpoint)
               /\ fle(tecs._last_throttle_setpoint, obs.in.throttle_max)

\* C2: after every update_pitch_throttle the published pitch lies within the
\* pitch_limit_min and pitch_limit_max the host passed to that call.
C2_PitchWithinHostLimits ==
    Stepped => /\ fle(obs.in.pitch_limit_min, tecs._last_pitch_setpoint)
               /\ fle(tecs._last_pitch_setpoint, obs.in.pitch_limit_max)

\* C3: the published mode is UNDERSPEED if underspeed is detected, else
\* BAD_DESCENT if the descent latch is set, else CLIMBOUT if the host asked
\* for climbout, else NORMAL.
C3_ModePrecedence ==
    Stepped =>
        tecs._tecs_mode =
            IF fgt(tecs._percent_undersped, FLT_EPSILON) THEN UNDERSPEED
            ELSE IF tecs._uncommanded_descent_recovery THEN BAD_DESCENT
            ELSE IF obs.in.climb_out_setpoint THEN CLIMBOUT
            ELSE NORMAL

\* the descent latch is set in a climbout step, and BAD_DESCENT is published
C3_Witness ==
    /\ Stepped
    /\ obs.in.climb_out_setpoint
    /\ tecs._uncommanded_descent_recovery
    /\ ~fgt(tecs._percent_undersped, FLT_EPSILON)
    /\ tecs._tecs_mode = BAD_DESCENT

\* the conditions of the descent latch, from the values the previous step left
DescentEnter ==
    /\ ~obs.pre._uncommanded_descent_recovery
    /\ ~fgt(tecs._percent_undersped, FLT_EPSILON)
    /\ fgt(obs.pre._STE_error, 200 * SCALE)
    /\ flt(fadd(obs.pre._SPE_rate, obs.pre._SKE_rate), 0)
    /\ fge(obs.pre._last_throttle_setpoint, fmul(obs.in.throttle_max, 900))

DescentExit ==
    /\ obs.pre._uncommanded_descent_recovery
    /\ (fgt(tecs._percent_undersped, FLT_EPSILON) \/ flt(obs.pre._STE_error, 0))

\* C4: in a step that neither re-initialises nor is a climbout step, the
\* descent latch is set when it was clear, no underspeed is detected, and the
\* previous step left STE_error above 200, a negative total energy rate and a
\* throttle of at least 0.9 throttle_max; it is cleared when it was set and
\* underspeed is detected or the previous STE_error is negative; otherwise it
\* keeps its value.
C4_DescentLatch ==
    (Stepped /\ ~Reinitialised /\ ~obs.in.climb_out_setpoint) =>
        tecs._uncommanded_descent_recovery =
            IF DescentEnter THEN TRUE
            ELSE IF DescentExit THEN FALSE
            ELSE obs.pre._uncommanded_descent_recovery

\* the latch is set by a step
C4_Witness ==
    /\ Stepped /\ ~Reinitialised /\ ~obs.in.climb_out_setpoint
    /\ DescentEnter
    /\ tecs._uncommanded_descent_recovery

\* C5: update_pitch_throttle re-initialises the states exactly when one of
\* the reset conditions occurred: the first update_vehicle_state_estimates
\* call, one more than a second after the previous, one with altitude_lock
\* false, the first update_pitch_throttle call, or one more than a second
\* after the previous.  A step that re-initialises starts its control laws
\* from the reset values, any other step from the values the previous step
\* left, and states_initialized is true after every step.
C5_ResetConditions ==
    Stepped =>
        /\ Reinitialised = ResetExpected
        /\ tecs._states_initialized
        /\ IF ResetExpected
           THEN /\ tecs.loc.init._last_throttle_setpoint = obs.in.throttle_trim
                /\ tecs.loc.init._last_pitch_setpoint = ClampedPitch
                /\ tecs.loc.init._hgt_setpoint = obs.in.baro_altitude
                /\ tecs.loc.init._throttle_integ_state = 0
                /\ tecs.loc.init._pitch_integ_state = 0
                /\ ~tecs.loc.init._uncommanded_descent_recovery
           ELSE /\ tecs.loc.init._last_throttle_setpoint = obs.pre._last_throttle_setpoint
                /\ tecs.loc.init._last_pitch_setpoint = obs.pre._last_pitch_setpoint
                /\ tecs.loc.init._throttle_integ_state = obs.pre._throttle_integ_state
                /\ tecs.loc.init._pitch_integ_state = obs.pre._pitch_integ_state

\* a step re-initialises for the one reason that the estimates before it
\* came more than a second after the previous estimates
C5_Witness ==
    /\ Stepped /\ Reinitialised
    /\ obs.expect = {"estimate_gap"}

\* the step ran without an airspeed measurement
NoAirspeed == ~PX4_ISFINITE(obs.in.equivalent_airspeed) \/ ~tecs._airspeed_enabled

\* C6: in every step whose EAS input is not finite or in which airspeed
\* sensing is disabled, the speed filter is driven by the trim airspeed and
\* tas_state is finite, TAS_rate_setpoint is 0, the throttle demand before
\* underspeed blending and slew limiting is the feedforward value,
\* throttle_integ_state is 0 and the weights are SKE_weighting = 0 and
\* SPE_weighting = 1.
C6_NoAirspeedFallback ==
    (Stepped /\ NoAirspeed) =>
        /\ tecs._EAS = Params.equivalent_airspeed_trim
        /\ PX4_ISFINITE(tecs._tas_state)
        /\ tecs._TAS_rate_setpoint = 0
        /\ tecs.loc.throttle_demand = tecs.loc.throttle_predicted
        /\ tecs._throttle_integ_state = 0
        /\ tecs._SKE_weighting = 0
        /\ tecs._SPE_weighting = SCALE

\* the largest change the pitch rate limit allows in the step
PitchIncrement == fdiv(fmul(tecs._dt, Params.vert_accel_limit), tecs._tas_state)

\* the largest change the throttle slew limit allows in the step
ThrottleIncrementLimit ==
    fmul(fmul(tecs._dt, fsub(tecs._throttle_setpoint_max, tecs._throttle_setpoint_min)),
         tecs._throttle_slewrate)

SlewActive == fgt(fabsf(tecs._throttle_slewrate), 10)

\* the statement of C7 as the specification has it: a stale step publishes
\* the trim throttle, the clamped input pitch and the mode NORMAL
C7_StaleStepPublishesTrim ==
    (Stepped /\ Stale) =>
        /\ Reinitialised
        /\ tecs._last_throttle_setpoint = obs.in.throttle_trim
        /\ tecs._last_pitch_setpoint = ClampedPitch
        /\ tecs._tecs_mode = NORMAL

\* C7: every stale step (the first update_pitch_throttle call, or one more
\* than a second after the previous) resets the states, and its control laws
\* run from throttle_trim and the clamped input pitch: the published pitch is
\* not further than the pitch rate limit from the clamped input pitch, the
\* published throttle is, when the slew limit is active, not further than the
\* slew limit from throttle_trim unless it sits on a throttle limit, and the
\* mode is NORMAL only without underspeed, descent latch and climbout.
C7_StaleStepResets ==
    (Stepped /\ Stale) =>
        /\ Reinitialised
        /\ tecs.loc.init._last_throttle_setpoint = obs.in.throttle_trim
        /\ tecs.loc.init._last_pitch_setpoint = ClampedPitch
        /\ ~flt(tecs._last_pitch_setpoint, fsub(ClampedPitch, PitchIncrement))
        /\ ~fgt(tecs._last_pitch_setpoint, fadd(ClampedPitch, PitchIncrement))
        /\ SlewActive =>
              \/ tecs._last_throttle_setpoint = tecs._throttle_setpoint_min
              \/ tecs._last_throttle_setpoint = tecs._throttle_setpoint_max
              \/ /\ ~flt(tecs._last_throttle_setpoint,
                         fsub(obs.in.throttle_trim, ThrottleIncrementLimit))
                 /\ ~fgt(tecs._last_throttle_setpoint,
                         fadd(obs.in.throttle_trim, ThrottleIncrementLimit))
        /\ (tecs._tecs_mode = NORMAL) =
              (/\ ~fgt(tecs._percent_undersped, FLT_EPSILON)
               /\ ~tecs._uncommanded_descent_recovery
               /\ ~obs.in.climb_out_setpoint)

\* a stale step more than a second after the previous one publishes a
\* throttle other than the trim throttle
C7_Witness ==
    /\ Stepped /\ Stale /\ Reinitialised
    /\ HasPreviousStep
    /\ PX4_ISFINITE(tecs._last_throttle_setpoint)
    /\ tecs._last_throttle_setpoint # obs.in.throttle_trim
    /\ tecs._tecs_mode # NORMAL

\* C8: in every step no division by tas_state has a zero divisor: not in
\* the TAS-rate limits, not in the conversion of the SEB-rate correction to a
\* pitch angle, not in the pitch-rate limit.
C8_NoZeroDivisor ==
    Stepped =>
        /\ tecs.loc.tas_rate_divisor # 0
        /\ tecs.loc.climb_angle_to_SEB_rate # 0
        /\ tecs.loc.pitch_increment_divisor # 0

\* the statement of C9 as the specification has it: with the slew limit
\* active the published throttle is within the slew limit of the previously
\* published one, in every step after the first
C9_SlewBoundEveryStep ==
    (Stepped /\ SlewActive /\ HasPreviousStep) =>
        fle(fabsf(fsub(tecs._last_throttle_setpoint, obs.pre._last_throttle_setpoint)),
            ThrottleIncrementLimit)

\* the previous throttle lies within the limits the step uses
PreviousThrottleWithinLimits ==
    /\ fle(tecs._throttle_setpoint_min, obs.pre._last_throttle_setpoint)
    /\ fle(obs.pre._last_throttle_setpoint, tecs._throttle_setpoint_max)

\* C9: in a step that does not re-initialise, with the slew limit active and
\* the previously published throttle within the limits the step uses
\* (throttle_max - 0.01 to throttle_max in climbout), the published throttle
\* differs from the previous one by at most
\* dt*(throttle_max - throttle_min)*throttle_slewrate.
C9_SlewBound ==
    (Stepped /\ SlewActive /\ ~Reinitialised /\ PreviousThrottleWithinLimits) =>
        fle(fabsf(fsub(tecs._last_throttle_setpoint, obs.pre._last_throttle_setpoint)),
            ThrottleIncrementLimit)

\* the slew limit holds the throttle back: the demand is further away than
\* the limit allows
C9_Witness ==
    /\ Stepped /\ SlewActive /\ ~Reinitialised /\ PreviousThrottleWithinLimits
    /\ fgt(ThrottleIncrementLimit, 0)
    /\ fgt(tecs.loc.throttle_demand,
           fadd(obs.pre._last_throttle_setpoint, ThrottleIncrementLimit))
    /\ tecs._last_throttle_setpoint =
           fadd(obs.pre._last_throttle_setpoint, ThrottleIncrementLimit)

\* the statement of C10 as the specification has it: the published pitch is
\* within the pitch rate limit of the previously published one, in every
\* step after the first
C10_PitchRateBoundEveryStep ==
    (Stepped /\ HasPreviousStep) =>
        fle(fabsf(fsub(tecs._last_pitch_setpoint, obs.pre._last_pitch_setpoint)),
            PitchIncrement)

\* the pitch the rate limit starts from
PitchBase == IF Reinitialised THEN ClampedPitch ELSE obs.pre._last_pitch_setpoint

\* C10: after every step the published pitch is not further than
\* dt*vert_accel_limit/tas_state from the pitch the step started from, which
\* is the previously published pitch, or the clamped input pitch in a step
\* that re-initialises.
C10_PitchRateBound ==
    Stepped =>
        /\ ~flt(tecs._last_pitch_setpoint, fsub(PitchBase, PitchIncrement))
        /\ ~fgt(tecs._last_pitch_setpoint, fadd(PitchBase, PitchIncrement))

\* the rate limit holds the pitch back: the clamp to the pitch limits asks
\* for a larger change
C10_Witness ==
    /\ Stepped /\ ~Reinitialised
    /\ PX4_ISFINITE(PitchIncrement)
    /\ fgt(tecs.loc.pitch_setpoint, fadd(obs.pre._last_pitch_setpoint, PitchIncrement))
    /\ tecs._last_pitch_setpoint = fadd(obs.pre._last_pitch_setpoint, PitchIncrement)

\* the step is a climbout step with airspeed sensing enabled
ClimboutWithAirspeed == obs.in.climb_out_setpoint /\ tecs._airspeed_enabled

\* C11: a step called with climbout and airspeed sensing enabled, the first
\* step after a cold start included, ends with the throttle at throttle_max,
\* the pitch at or above pitch_min_climbout, the mode CLIMBOUT,
\* SKE_weighting = 1 and SPE_weighting = 0.
C11_ClimboutStep ==
    (Stepped /\ ClimboutWithAirspeed) =>
        /\ tecs._last_throttle_setpoint = obs.in.throttle_max
        /\ fge(tecs._last_pitch_setpoint, obs.in.pitch_min_climbout)
        /\ tecs._tecs_mode = CLIMBOUT
        /\ tecs._SKE_weighting = SCALE
        /\ tecs._SPE_weighting = 0

\* C12: in every step that ends with the descent latch set, the speed
\* setpoint is forced to the minimum, TAS_setpoint = TAS_setpoint_adj = TAS_min
\* (TAS_min being at most TAS_max), whatever EAS_setpoint the host passed: the
\* latch the detector decides in a step is the one the speed setpoint of the
\* same step uses.
C12_LatchForcesMinimumSpeed ==
    (Stepped /\ tecs._uncommanded_descent_recovery /\ fle(tecs._TAS_min, tecs._TAS_max)) =>
        /\ tecs._TAS_setpoint = tecs._TAS_min
        /\ tecs._TAS_setpoint_adj = tecs._TAS_min

\* the detector sets the latch in a step whose host asks for a speed above
\* the minimum, and the step resolves the minimum
C12_Witness ==
    /\ Stepped
    /\ ~obs.pre._uncommanded_descent_recovery
    /\ tecs._uncommanded_descent_recovery
    /\ fle(tecs._TAS_min, tecs._TAS_max)
    /\ fgt(fmul(obs.in.EAS_setpoint, obs.in.eas_to_tas), tecs._TAS_min)
    /\ tecs._TAS_setpoint_adj = tecs._TAS_min

\* the airspeed deviation the detector allows before it ramps in
UnderspeedMargin == fmul(kTASErrorPercentage, Params.equivalent_airspeed_trim)

\* the airspeed estimate is at or below the speed of full underspeed,
\* max(TAS_min - 2 * margin, 0)
FullyUndersped ==
    fle(tecs._tas_state,
        max(fsub(fsub(tecs._TAS_min, UnderspeedMargin), UnderspeedMargin), 0))

\* the statement of C13 as the specification has it: with EAS2TAS = 1 a step
\* whose airspeed estimate equals TAS_min ends with percent_undersped = 1, the
\* throttle demand blended fully to throttle_max, and the mode UNDERSPEED
C13_UnderspeedAtMinimum ==
    (Stepped /\ Params.detect_underspeed_enabled /\ obs.in.eas_to_tas = SCALE
        /\ tecs._tas_state = tecs._TAS_min) =>
        /\ tecs._percent_undersped = SCALE
        /\ tecs.loc.throttle_ramped = tecs._throttle_setpoint_max
        /\ tecs._tecs_mode = UNDERSPEED

\* C13: with underspeed detection enabled, a step whose airspeed estimate is
\* at or below max(TAS_min - 2 * kTASErrorPercentage * EAS_trim, 0) ends with
\* percent_undersped = 1, the throttle demand blended fully to throttle_max,
\* and the mode UNDERSPEED; a step whose airspeed estimate equals a positive
\* TAS_min ends with percent_undersped = 0 and a mode other than UNDERSPEED.
C13_UnderspeedRamp ==
    (Stepped /\ Params.detect_underspeed_enabled) =>
        /\ FullyUndersped =>
              /\ tecs._percent_undersped = SCALE
              /\ tecs.loc.throttle_ramped = tecs._throttle_setpoint_max
              /\ tecs._tecs_mode = UNDERSPEED
        /\ (tecs._tas_state = tecs._TAS_min /\ fgt(tecs._TAS_min, 0)
               /\ fgt(UnderspeedMargin, 0)) =>
              /\ tecs._percent_undersped = 0
              /\ tecs._tecs_mode # UNDERSPEED

\* a step at full underspeed lifts a lower throttle demand to throttle_max
C13_Witness ==
    /\ Stepped /\ Params.detect_underspeed_enabled /\ FullyUndersped
    /\ tecs._percent_undersped = SCALE
    /\ flt(tecs.loc.throttle_demand, tecs._throttle_setpoint_max)
    /\ tecs.loc.throttle_ramped = tecs._throttle_setpoint_max
    /\ tecs._tecs_mode = UNDERSPEED

\* C14: after every step the published energy errors are consistent with the
\* energies the same step published: STE_error = SPE_setpoint - SPE_estimate
\* + SKE_setpoint - SKE_estimate and SEB_error = SEB_setpoint -
\* (SPE_estimate * SPE_weighting - SKE_estimate * SKE_weighting), with the
\* estimates computed in that step from the current vert_pos_state and
\* tas_state.
C14_EnergyErrorsConsistent ==
    Stepped =>
        /\ tecs._SPE_estimate = fmul(tecs._vert_pos_state, CONSTANTS_ONE_G)
        /\ tecs._SKE_estimate = fmul(fmul(500, tecs._tas_state), tecs._tas_state)
        /\ tecs._STE_error =
               fsub(fadd(fsub(tecs._SPE_setpoint, tecs._SPE_estimate), tecs._SKE_setpoint),
                    tecs._SKE_estimate)
        /\ tecs._SEB_error =
               fsub(SEB_setpoint(tecs),
                    fsub(fmul(tecs._SPE_estimate, tecs._SPE_weighting),
                         fmul(tecs._SKE_estimate, tecs._SKE_weighting)))

\* C15: the states of the two first-order filters are reset to zero only in
\* a step where the initializer triggers; every other step starts its control
\* laws with both filter states as the calls before it left them, so that
\* STE_rate_error depends on the raw errors of earlier steps and the filtered
\* airspeed rate of update_vehicle_state_estimates does not depend on the steps
\* called in between.
C15_FiltersPersist ==
    (Stepped /\ ~Reinitialised) =>
        /\ tecs.loc.init._STE_rate_error_filter.state = obs.pre._STE_rate_error_filter.state
        /\ tecs.loc.init._TAS_rate_filter.state = obs.pre._TAS_rate_filter.state

=============================================================================
